---- MODULE Spec2Model ----
(***************************************************************************)
(* Model of the solution harness of advent-of-code-rs (src/src/lib.rs):    *)
(* run_solutions, run_solution, benchmark_part and print_selection.        *)
(*                                                                         *)
(* The registry all_solutions is a sequence of years, each a sequence of   *)
(* days, each a sequence of parts.  A part (a Box<dyn Solve>) is a record  *)
(* carrying the string its correct_solution() returns and `home`, the      *)
(* place <<year index, day index, part index>> at which the box was put    *)
(* into the registry; the boxes are moved, never copied, so `home` is the  *)
(* identity of the object.  What solve() returns and how long it takes is  *)
(* outside the harness: the result is drawn from Outputs at each call and  *)
(* the elapsed time of the i-th benchmark repetition is read off a clock   *)
(* chosen at the start.  The verification-mode duration is not modelled.   *)
(* Lines written with eprintln!/println! are records; the text of a panic  *)
(* is not part of stderr here.  Option<NonZeroU16> is 0 for None.          *)
(***************************************************************************)
EXTENDS Integers, Sequences, FiniteSets, TLC

VARIABLES
    all_solutions, year_selection, day_selection, loop_count, clock,
    pc, panic,
    year_n, years, year_offset,
    day_n, days, day_pos,
    year, day, parts, part_n,
    input, input_path, input_cloned,
    timings,
    stderr, out, nout,
    fixture, received, lastInvoked, invCount, nloads, mismatch

vars == << all_solutions, year_selection, day_selection, loop_count, clock,
           pc, panic, year_n, years, year_offset, day_n, days, day_pos,
           year, day, parts, part_n, input, input_path, input_cloned,
           timings, stderr, out, nout,
           fixture, received, lastInvoked, invCount, nloads, mismatch >>

----------------------------------------------------------------------------
(* Bounds of the model *)

MaxYears == 2
MaxDays == 2
MaxParts == 2
MaxLoop == 2
MaxBenchLoop == 21

(* Program constants *)

FIRST_YEAR == 2021

U16Max == 65535

----------------------------------------------------------------------------
(* Input domains *)

SeqsUpTo(S, n) == UNION { [1..k -> S] : k \in 0..n }

CorrectOf(p) == IF p % 2 = 1 THEN "42" ELSE "41"

Outputs == {"42", "41"}

PartCounts == {0, MaxParts}

Shapes == SeqsUpTo(SeqsUpTo(PartCounts, MaxDays), MaxYears)

MkRegistry(shape) ==
    [y \in 1..Len(shape) |->
        [d \in 1..Len(shape[y]) |->
            [p \in 1..shape[y][d] |->
                [home |-> <<y, d, p>>, correct |-> CorrectOf(p)]]]]

All == [tag |-> "All", n |-> 0]
Latest == [tag |-> "Latest", n |-> 0]
Single(n) == [tag |-> "Single", n |-> n]

YearSelections ==
    {All, Latest} \cup { Single(n) : n \in (FIRST_YEAR - 1)..(FIRST_YEAR + MaxYears) }

DaySelections ==
    {All, Latest} \cup { Single(n) : n \in 0..(MaxDays + 1) }

(* The lines of src/year_{y}/day_{d}/input.txt, when the file can be read *)
FileLines(y, d) == << <<y, d, 1>>, <<y, d, 2>> >>

Clocks == {"asc", "desc", "mixed", "const"}

Elapsed(c, i) ==
    CASE c = "asc" -> i
      [] c = "desc" -> 40 - i
      [] c = "mixed" -> (i * 7) % 5
      [] OTHER -> 3

NoKey == <<0, 0, 0>>
NoLine == [kind |-> "none"]

----------------------------------------------------------------------------
(* Pure pieces of the code *)

(* Variant of LatestYearN: off by one *)
LatestYearNOffByOne(len) == len + FIRST_YEAR

LatestYearN(len) == len + FIRST_YEAR - 1

YearOutOfRange(n, len) == n < FIRST_YEAR \/ n - FIRST_YEAR >= len

DayOutOfRange(n, len) == n < 1 \/ n > len

YearTextOf(sel, latest_year) ==
    CASE sel.tag = "All" -> <<"all years", 0>>
      [] sel.tag = "Latest" -> <<"latest year", latest_year>>
      [] OTHER -> <<"year", sel.n>>

DayTextOf(sel) ==
    CASE sel.tag = "All" -> <<"all days", 0>>
      [] sel.tag = "Latest" -> <<"latest day", 0>>
      [] OTHER -> <<"day", sel.n>>

print_selection(ysel, dsel, latest_year) ==
    [kind |-> "solving", day_text |-> DayTextOf(dsel),
     year_text |-> YearTextOf(ysel, latest_year)]

(* days.into_iter().enumerate().filter(|(_, day)| !day.is_empty()) *)
RECURSIVE EnumerateFrom(_, _)
EnumerateFrom(ds, k) ==
    IF ds = <<>> THEN <<>>
    ELSE <<[day_offset |-> k, day |-> Head(ds)]>> \o EnumerateFrom(Tail(ds), k + 1)

RECURSIVE Reverse(_)
Reverse(sq) == IF sq = <<>> THEN <<>> ELSE Append(Reverse(Tail(sq)), Head(sq))

(* Variants of DaysIter: walking the days backwards, not filtering the     *)
(* empty days out, and numbering the days after the filter.                *)
DaysIterReversed(ds) ==
    Reverse(SelectSeq(EnumerateFrom(ds, 0), LAMBDA e : e.day # <<>>))

DaysIterUnfiltered(ds) == EnumerateFrom(ds, 0)

DaysIterFilterFirst(ds) == EnumerateFrom(SelectSeq(ds, LAMBDA dd : dd # <<>>), 0)

DaysIter(ds) == SelectSeq(EnumerateFrom(ds, 0), LAMBDA e : e.day # <<>>)

(* Variant of ContinueYears: leaving the loop instead of continuing it *)
ReturnFromYears(yoff) == [pc |-> "done", year_offset |-> yoff]

(* `continue` in the loop over the years: on to the next year *)
ContinueYears(yoff) == [pc |-> "years", year_offset |-> yoff + 1]

YearArg(yn, yoff) == yn + yoff

DayArg(dn, doff) == dn + doff

DayReportYear(yn, yoff) == yn

(* Variant of FreshCopy: the buffer of the invocation before is used again *)
StaleCopy(lines, stale) == stale

FreshCopy(lines, stale) == lines

Consume(lines) == <<>>

(* Variant of Check: the markers the wrong way round *)
CheckInverted(result, correct) == IF result # correct THEN "pass" ELSE "fail"

Check(result, correct) == IF result = correct THEN "pass" ELSE "fail"

RECURSIVE Insert(_, _)
Insert(x, s) ==
    IF s = <<>> THEN <<x>>
    ELSE IF x <= Head(s) THEN <<x>> \o s
    ELSE <<Head(s)>> \o Insert(x, Tail(s))

RECURSIVE SortUnstable(_)
SortUnstable(s) ==
    IF s = <<>> THEN <<>> ELSE Insert(Head(s), SortUnstable(Tail(s)))

(* Variant of P5Index: rounding up instead of down *)
P5IndexCeil(lc) == (lc + 19) \div 20

P5Index(lc) == lc \div 20

----------------------------------------------------------------------------
(* Initial state: run_solutions has been called with its four arguments *)

Locals ==
    /\ pc = "start"
    /\ panic = "none"
    /\ year_n = 0
    /\ years = <<>>
    /\ year_offset = 0
    /\ day_n = 0
    /\ days = <<>>
    /\ day_pos = 1
    /\ year = 0
    /\ day = 0
    /\ parts = <<>>
    /\ part_n = 1
    /\ input = <<>>
    /\ input_path = <<0, 0>>
    /\ input_cloned = <<>>
    /\ timings = <<>>
    /\ stderr = <<>>
    /\ out = NoLine
    /\ nout = 0
    /\ fixture = <<>>
    /\ received = <<>>
    /\ lastInvoked = [key |-> NoKey, home |-> NoKey]
    /\ invCount = 0
    /\ nloads = 0
    /\ mismatch = FALSE

Init ==
    /\ all_solutions \in { MkRegistry(s) : s \in Shapes }
    /\ year_selection \in YearSelections
    /\ day_selection \in DaySelections
    /\ loop_count \in {0, MaxLoop}
    /\ clock = "mixed"
    /\ Locals

args == << all_solutions, year_selection, day_selection, loop_count, clock >>
yearLocals == << year_n, years, year_offset >>
dayLocals == << day_n, days, day_pos >>
runLocals == << year, day, parts, part_n, input, input_path, input_cloned, fixture, nloads >>
solveGhost == << received, lastInvoked, invCount, mismatch >>
stdout == << out, nout >>

----------------------------------------------------------------------------
(* run_solutions, lines 43-62: resolve the year selection *)

SelectAllYears ==
    /\ pc = "start"
    /\ year_selection.tag = "All"
    /\ year_n' = FIRST_YEAR
    /\ years' = all_solutions
    /\ stderr' = Append(stderr, print_selection(year_selection, day_selection, year_n'))
    /\ pc' = "years"
    /\ UNCHANGED << args, panic, year_offset, dayLocals, runLocals, timings, stdout, solveGhost >>

SelectLatestYear ==
    /\ pc = "start"
    /\ year_selection.tag = "Latest"
    /\ IF all_solutions = <<>>
       THEN /\ pc' = "panicked"
            /\ panic' = "unwrap_none"
            /\ UNCHANGED << year_n, years, stderr >>
       ELSE /\ year_n' = LatestYearN(Len(all_solutions))
            /\ years' = << all_solutions[Len(all_solutions)] >>
            /\ stderr' = Append(stderr, print_selection(year_selection, day_selection, year_n'))
            /\ pc' = "years"
            /\ UNCHANGED panic
    /\ UNCHANGED << args, year_offset, dayLocals, runLocals, timings, stdout, solveGhost >>

SelectSingleYear ==
    /\ pc = "start"
    /\ year_selection.tag = "Single"
    /\ IF YearOutOfRange(year_selection.n, Len(all_solutions))
       THEN /\ stderr' = Append(stderr, [kind |-> "no_year", year |-> year_selection.n])
            /\ pc' = "returned"
            /\ UNCHANGED << year_n, years >>
       ELSE /\ year_n' = year_selection.n
            /\ years' = << all_solutions[(year_selection.n - FIRST_YEAR) + 1] >>
            /\ stderr' = Append(stderr, print_selection(year_selection, day_selection, year_n'))
            /\ pc' = "years"
    /\ UNCHANGED << args, panic, year_offset, dayLocals, runLocals, timings, stdout, solveGhost >>

----------------------------------------------------------------------------
(* run_solutions, lines 64-76: one turn of the loop over the years *)

SelectAllDays ==
    /\ pc = "years"
    /\ year_offset < Len(years)
    /\ day_selection.tag = "All"
    /\ day_n' = 1
    /\ days' = years[year_offset + 1]
    /\ day_pos' = 1
    /\ pc' = "days"
    /\ UNCHANGED << args, panic, yearLocals, runLocals, timings, stderr, stdout, solveGhost >>

SelectLatestDay ==
    /\ pc = "years"
    /\ year_offset < Len(years)
    /\ day_selection.tag = "Latest"
    /\ LET yr == years[year_offset + 1] IN
       IF yr = <<>>
       THEN /\ pc' = "panicked"
            /\ panic' = "unwrap_none"
            /\ UNCHANGED dayLocals
       ELSE /\ day_n' = Len(yr)
            /\ days' = << yr[Len(yr)] >>
            /\ day_pos' = 1
            /\ pc' = "days"
            /\ UNCHANGED panic
    /\ UNCHANGED << args, yearLocals, runLocals, timings, stderr, stdout, solveGhost >>

SelectSingleDay ==
    /\ pc = "years"
    /\ year_offset < Len(years)
    /\ day_selection.tag = "Single"
    /\ LET yr == years[year_offset + 1] IN
       IF DayOutOfRange(day_selection.n, Len(yr))
       THEN /\ stderr' = Append(stderr, [kind |-> "no_day", day |-> day_selection.n,
                                         year |-> DayReportYear(year_n, year_offset)])
            /\ year_offset' = ContinueYears(year_offset).year_offset
            /\ pc' = ContinueYears(year_offset).pc
            /\ UNCHANGED << year_n, years, dayLocals >>
       ELSE /\ day_n' = day_selection.n
            /\ days' = << yr[(day_selection.n - 1) + 1] >>
            /\ day_pos' = 1
            /\ pc' = "days"
            /\ UNCHANGED << yearLocals, stderr >>
    /\ UNCHANGED << args, panic, runLocals, timings, stdout, solveGhost >>

YearsDone ==
    /\ pc = "years"
    /\ year_offset >= Len(years)
    /\ pc' = "done"
    /\ UNCHANGED << args, panic, yearLocals, dayLocals, runLocals, timings, stderr, stdout, solveGhost >>

----------------------------------------------------------------------------
(* run_solutions, lines 78-84, and run_solution, lines 94-100: the next    *)
(* non-empty day is handed to run_solution, which reads its input file.    *)
(* Whether the file opens and reads is the file system's choice.        *)
(*                                                                         *)

LoadFixture ==
    /\ pc = "days"
    /\ day_pos <= Len(DaysIter(days))
    /\ LET e == DaysIter(days)[day_pos]
           y == YearArg(year_n, year_offset)
           d == DayArg(day_n, e.day_offset)
       IN /\ parts' = e.day
          /\ year' = y
          /\ day' = d
          /\ input_path' = <<y, d>>
          /\ nloads' = nloads + 1
          /\ input' = FileLines(y, d)
          /\ fixture' = FileLines(y, d)
          /\ part_n' = 1
          /\ pc' = "parts"
    /\ UNCHANGED << args, panic, yearLocals, dayLocals, input_cloned, timings, stderr, stdout, solveGhost >>

LoadFixtureFails ==
    /\ pc = "days"
    /\ day_pos <= Len(DaysIter(days))
    /\ LET e == DaysIter(days)[day_pos]
           y == YearArg(year_n, year_offset)
           d == DayArg(day_n, e.day_offset)
       IN /\ parts' = e.day
          /\ year' = y
          /\ day' = d
          /\ input_path' = <<y, d>>
          /\ nloads' = nloads + 1
    /\ \E why \in {"fixture_not_found", "fixture_read"} : panic' = why
    /\ pc' = "panicked"
    /\ UNCHANGED << args, yearLocals, dayLocals, part_n, input, input_cloned, fixture, timings, stderr, stdout, solveGhost >>

DaysDone ==
    /\ pc = "days"
    /\ day_pos > Len(DaysIter(days))
    /\ year_offset' = year_offset + 1
    /\ pc' = "years"
    /\ UNCHANGED << args, panic, year_n, years, dayLocals, runLocals, timings, stderr, stdout, solveGhost >>

----------------------------------------------------------------------------
(* run_solution, lines 102-120: one part *)

VerifyPart ==
    /\ pc = "parts"
    /\ part_n <= Len(parts)
    /\ loop_count = 0
    /\ LET part == parts[part_n]
           cloned == FreshCopy(input, input_cloned)
       IN \E result \in Outputs :
            LET check == Check(result, part.correct) IN
            /\ received' = cloned
            /\ input_cloned' = Consume(cloned)
            /\ lastInvoked' = [key |-> <<year, day, part_n>>, home |-> part.home]
            /\ invCount' = 1
            /\ out' = [kind |-> "verify", year |-> year, day |-> day, part |-> part_n,
                       check |-> check, result |-> result]
            /\ nout' = nout + 1
            /\ mismatch' = (mismatch \/ check = "fail")
    /\ part_n' = part_n + 1
    /\ UNCHANGED << args, pc, panic, yearLocals, dayLocals, year, day, parts, input, input_path,
                    fixture, nloads, timings, stderr >>

BenchStart ==
    /\ pc = "parts"
    /\ part_n <= Len(parts)
    /\ loop_count # 0
    /\ input_cloned' = FreshCopy(input, input_cloned)
    /\ timings' = <<>>
    /\ invCount' = 0
    /\ pc' = "bench"
    /\ UNCHANGED << args, panic, yearLocals, dayLocals, year, day, parts, part_n, input, input_path,
                    fixture, nloads, stderr, stdout, received, lastInvoked, mismatch >>

PartsDone ==
    /\ pc = "parts"
    /\ part_n > Len(parts)
    /\ day_pos' = day_pos + 1
    /\ pc' = "days"
    /\ UNCHANGED << args, panic, yearLocals, day_n, days, runLocals, timings, stderr, stdout, solveGhost >>

----------------------------------------------------------------------------
(* benchmark_part, lines 123-136 *)

BenchIter ==
    /\ pc = "bench"
    /\ Len(timings) < loop_count
    /\ LET part == parts[part_n]
           owned == FreshCopy(input_cloned, Consume(received))
       IN /\ received' = owned
          /\ lastInvoked' = [key |-> <<year, day, part_n>>, home |-> part.home]
          /\ invCount' = invCount + 1
          /\ timings' = Append(timings, Elapsed(clock, Len(timings) + 1))
    /\ UNCHANGED << args, pc, panic, yearLocals, dayLocals, runLocals, stderr, stdout, mismatch >>

BenchFinish ==
    /\ pc = "bench"
    /\ Len(timings) >= loop_count
    /\ LET sorted == SortUnstable(timings) IN
       /\ timings' = sorted
       /\ IF P5Index(loop_count) + 1 \in DOMAIN sorted
          THEN /\ out' = [kind |-> "bench", year |-> year, day |-> day, part |-> part_n,
                          loops |-> loop_count, p5 |-> sorted[P5Index(loop_count) + 1]]
               /\ nout' = nout + 1
               /\ part_n' = part_n + 1
               /\ pc' = "parts"
               /\ UNCHANGED panic
          ELSE /\ pc' = "panicked"
               /\ panic' = "index_out_of_bounds"
               /\ UNCHANGED << stdout, part_n >>
    /\ UNCHANGED << args, yearLocals, dayLocals, year, day, parts, input, input_path, input_cloned,
                    fixture, nloads, stderr, solveGhost >>

----------------------------------------------------------------------------

Next ==
    \/ SelectAllYears
    \/ SelectLatestYear
    \/ SelectSingleYear
    \/ SelectAllDays
    \/ SelectLatestDay
    \/ SelectSingleDay
    \/ YearsDone
    \/ LoadFixture
    \/ LoadFixtureFails
    \/ DaysDone
    \/ VerifyPart
    \/ BenchStart
    \/ PartsDone
    \/ BenchIter
    \/ BenchFinish

Spec == Init /\ [][Next]_vars

----------------------------------------------------------------------------
(* benchmark_part on its own: run_solution has reached the first part of   *)
(* the only day of a one-year registry and calls benchmark_part with any   *)
(* loop count up to MaxBenchLoop and any of the clocks.                    *)

InitBench ==
    /\ all_solutions = MkRegistry(<< << MaxParts >> >>)
    /\ year_selection = All
    /\ day_selection = All
    /\ loop_count \in 1..MaxBenchLoop
    /\ clock \in Clocks
    /\ pc = "bench"
    /\ panic = "none"
    /\ year_n = FIRST_YEAR
    /\ years = all_solutions
    /\ year_offset = 0
    /\ day_n = 1
    /\ days = all_solutions[1]
    /\ day_pos = 1
    /\ year = FIRST_YEAR
    /\ day = 1
    /\ parts = all_solutions[1][1]
    /\ part_n = 1
    /\ input = FileLines(FIRST_YEAR, 1)
    /\ input_path = <<FIRST_YEAR, 1>>
    /\ input_cloned = FileLines(FIRST_YEAR, 1)
    /\ timings = <<>>
    /\ stderr = << print_selection(All, All, FIRST_YEAR) >>
    /\ out = NoLine
    /\ nout = 0
    /\ fixture = FileLines(FIRST_YEAR, 1)
    /\ received = <<>>
    /\ lastInvoked = [key |-> NoKey, home |-> NoKey]
    /\ invCount = 0
    /\ nloads = 1
    /\ mismatch = FALSE

NextBench ==
    \/ BenchIter
    \/ BenchFinish

SpecBench == InitBench /\ [][NextBench]_vars

----------------------------------------------------------------------------
(* What a run is expected to cover, read off the registry and the two      *)
(* selections alone (registry indices are 1-based).                        *)

NYears == Len(all_solutions)

YearNumber(yi) == FIRST_YEAR + yi - 1

ScopeYears ==
    CASE year_selection.tag = "All" -> [k \in 1..NYears |-> k]
      [] year_selection.tag = "Latest" -> IF NYears >= 1 THEN <<NYears>> ELSE <<>>
      [] OTHER ->
            IF year_selection.n >= FIRST_YEAR /\ year_selection.n <= FIRST_YEAR + NYears - 1
            THEN << year_selection.n - FIRST_YEAR + 1 >>
            ELSE <<>>

YearSingleOutside ==
    /\ year_selection.tag = "Single"
    /\ \/ year_selection.n < FIRST_YEAR
       \/ year_selection.n >= FIRST_YEAR + NYears

DaySingleOutside(yi) ==
    /\ day_selection.tag = "Single"
    /\ \/ day_selection.n = 0
       \/ day_selection.n > Len(all_solutions[yi])

ScopeDaysOf(yi) ==
    LET nd == Len(all_solutions[yi]) IN
    CASE day_selection.tag = "All" -> 1..nd
      [] day_selection.tag = "Latest" -> IF nd >= 1 THEN {nd} ELSE {}
      [] OTHER -> IF DaySingleOutside(yi) THEN {} ELSE {day_selection.n}

InScopeYear(yi) == \E k \in DOMAIN ScopeYears : ScopeYears[k] = yi

ScopeDays ==
    { yd \in UNION { { <<yi, di>> : di \in ScopeDaysOf(yi) } : yi \in 1..NYears } :
        InScopeYear(yd[1]) /\ all_solutions[yd[1]][yd[2]] # <<>> }

ScopeParts ==
    UNION { { <<yd[1], yd[2], p>> : p \in 1..Len(all_solutions[yd[1]][yd[2]]) } : yd \in ScopeDays }

(* The years of the scope for which the day selection is an out-of-range Single *)
OutsideYears == SelectSeq(ScopeYears, DaySingleOutside)

NoDayLines == SelectSeq(stderr, LAMBDA l : l.kind = "no_day")

SolvingLines == SelectSeq(stderr, LAMBDA l : l.kind = "solving")

(* The registry year (index) the loop over the years is at, when it is at one *)
CurrentYear == ScopeYears[year_offset + 1]

InYear == pc \in {"days", "parts", "bench"}
InDay == pc \in {"parts", "bench"}

KeyLess(a, b) ==
    \/ a[1] < b[1]
    \/ a[1] = b[1] /\ a[2] < b[2]
    \/ a[1] = b[1] /\ a[2] = b[2] /\ a[3] < b[3]

LineKey(l) == IF l.kind = "none" THEN NoKey ELSE <<l.year, l.day, l.part>>

Reps == IF loop_count = 0 THEN 1 ELSE loop_count

FixtureAbort == pc = "panicked" /\ panic \in {"fixture_not_found", "fixture_read"}

(* The states a fixture load leads to; nloads changes at no other step *)
JustLoaded == FixtureAbort \/ (pc = "parts" /\ part_n = 1)

----------------------------------------------------------------------------
(* C1: for every registry, selection and loop count, run_solutions         *)
(* completes every resolvable scope, and the process terminates abnormally *)
(* only when a fixture fails to load or read.  Stated as the claim has it; *)
(* the code aborts on Latest over an empty registry or an empty year.      *)
C1_OnlyFixtureAborts ==
    /\ pc = "panicked" => panic \in {"fixture_not_found", "fixture_read"}
    /\ pc = "done" => nout = Cardinality(ScopeParts)

----------------------------------------------------------------------------
(* C2: solver invocations and result lines occur strictly in registry      *)
(* order.  Whenever a new part is invoked, its (year, day, part) triple    *)
(* and its registry place are greater than those of the part invoked       *)
(* before, and that earlier part already has its result line; every new    *)
(* result line is the line of the part invoked last and comes after all    *)
(* its repetitions; parts of a day are numbered 1, 2, ...                  *)
C2_Step ==
    /\ lastInvoked'.key # lastInvoked.key =>
          /\ KeyLess(lastInvoked.key, lastInvoked'.key)
          /\ KeyLess(lastInvoked.home, lastInvoked'.home)
          /\ lastInvoked.key # NoKey => LineKey(out) = lastInvoked.key
    /\ invCount' # invCount => invCount' = 0 \/ invCount' <= Reps
    /\ nout' # nout =>
          /\ nout' = nout + 1
          /\ LineKey(out') = lastInvoked'.key
          /\ invCount' = Reps
          /\ KeyLess(LineKey(out), LineKey(out'))
          /\ out'.part = lastInvoked'.home[3]
          /\ out'.part =
                IF out.kind # "none" /\ out.year = out'.year /\ out.day = out'.day
                THEN out.part + 1
                ELSE 1

C2_RegistryOrder == [][C2_Step]_vars

C2_Witness ==
    /\ pc = "done"
    /\ year_selection.tag = "All"
    /\ day_selection.tag = "All"
    /\ loop_count >= 2
    /\ nout >= 6
    /\ LineKey(out) = <<FIRST_YEAR + 1, 2, 2>>

----------------------------------------------------------------------------
(* C3: an out-of-range Single is recoverable at both levels.  Year level:  *)
(* one report, then run_solutions has returned with no fixture loaded and  *)
(* no part run.  Day level: a year for which the day is out of range gets  *)
(* one report and runs no part, and the loop goes on to every later year   *)
(* of the scope.                                                           *)
C3_OutOfRangeRecoverable ==
    /\ (YearSingleOutside /\ pc # "start") =>
          /\ pc = "returned"
          /\ panic = "none"
          /\ stderr = << [kind |-> "no_year", year |-> year_selection.n] >>
          /\ nloads = 0
          /\ nout = 0
          /\ lastInvoked.key = NoKey
    /\ (day_selection.tag = "Single" /\ pc # "start" /\ ~YearSingleOutside) =>
          /\ Len(NoDayLines) =
                Cardinality({ k \in 1..year_offset : DaySingleOutside(ScopeYears[k]) })
          /\ \A j \in DOMAIN NoDayLines : NoDayLines[j].day = day_selection.n
          /\ (InYear \/ FixtureAbort) => ~DaySingleOutside(CurrentYear)
          /\ JustLoaded =>
                nloads <= Cardinality({ k \in DOMAIN ScopeYears : ~DaySingleOutside(ScopeYears[k]) })
          /\ pc = "done" =>
                /\ year_offset = Len(ScopeYears)
                /\ Len(NoDayLines) = Len(OutsideYears)
                /\ nout = Cardinality(ScopeParts)

C3_Witness ==
    /\ pc = "done"
    /\ year_selection.tag = "All"
    /\ day_selection = Single(2)
    /\ NYears = 2
    /\ DaySingleOutside(1)
    /\ ~DaySingleOutside(2)
    /\ Len(NoDayLines) = 1
    /\ nout > 0

C3_WitnessYear ==
    /\ pc = "returned"
    /\ year_selection = Single(FIRST_YEAR + 1)
    /\ NYears = 1

----------------------------------------------------------------------------
(* Registry lookups by place, FALSE/empty when the place does not exist *)

IsDayPlace(yi, di) == yi \in DOMAIN all_solutions /\ di \in DOMAIN all_solutions[yi]

NonEmptyDayAt(y, d) ==
    /\ IsDayPlace(y - FIRST_YEAR + 1, d)
    /\ all_solutions[y - FIRST_YEAR + 1][d] # <<>>

RegPart(home) == all_solutions[home[1]][home[2]][home[3]]

----------------------------------------------------------------------------
(* C4: a day without parts is never executed and never reported, under any *)
(* day selection: every fixture address and every result line names a day  *)
(* that has parts, out-of-range reports are the only day reports, and the  *)
(* run still covers every non-empty day and every part of the scope.       *)
C4_EmptyDaySkipped ==
    /\ (InDay \/ FixtureAbort) => parts # <<>>
    /\ nloads > 0 => NonEmptyDayAt(input_path[1], input_path[2])
    /\ out.kind # "none" => NonEmptyDayAt(out.year, out.day)
    /\ Len(stderr) >= 2 => Len(NoDayLines) <= Len(OutsideYears)
    /\ pc = "done" =>
          /\ nloads = Cardinality(ScopeDays)
          /\ nout = Cardinality(ScopeParts)

C4_Witness ==
    /\ pc = "done"
    /\ year_selection.tag = "All"
    /\ day_selection.tag = "Latest"
    /\ NYears = 2
    /\ Len(all_solutions[1]) = 2
    /\ all_solutions[1][2] = <<>>
    /\ all_solutions[1][1] # <<>>
    /\ nloads = 1
    /\ LineKey(out) = <<FIRST_YEAR + 1, 1, MaxParts>>

----------------------------------------------------------------------------
(* C5: year and day numbers are registry positions.  Under All the loop    *)
(* walks the whole registry from the base year; under Latest it walks the  *)
(* last year alone, numbered base + N - 1; every executed day is addressed *)
(* (fixture, invocation, result line) by base + its year index - 1 and its *)
(* 1-based day index, also behind empty days.                              *)
C5_NumbersArePositions ==
    /\ (year_selection.tag = "All" /\ pc # "start") =>
          /\ years = all_solutions
          /\ year_n = FIRST_YEAR
          /\ InYear => year_offset < NYears
          /\ InDay => year = FIRST_YEAR + year_offset
          /\ pc = "done" => year_offset = NYears
    /\ (year_selection.tag = "Latest" /\ NYears >= 1 /\ pc # "start") =>
          /\ years = << all_solutions[NYears] >>
          /\ year_n = FIRST_YEAR + NYears - 1
          /\ InYear => year_offset = 0
          /\ InDay => year = FIRST_YEAR + NYears - 1
          /\ pc = "done" => year_offset = 1
    /\ (InDay \/ FixtureAbort) =>
          /\ input_path = <<year, day>>
          /\ year = YearNumber(CurrentYear)
          /\ IsDayPlace(CurrentYear, day)
          /\ parts = all_solutions[CurrentYear][day]
    /\ lastInvoked.key # NoKey =>
          lastInvoked.key =
             << YearNumber(lastInvoked.home[1]), lastInvoked.home[2], lastInvoked.home[3] >>
    /\ (out.kind # "none" /\ ~(pc = "bench" /\ invCount >= 1)) =>
          LineKey(out) = lastInvoked.key

C5_Witness ==
    /\ pc = "done"
    /\ year_selection.tag = "All"
    /\ day_selection.tag = "All"
    /\ NYears = 2
    /\ Len(all_solutions[2]) = 2
    /\ all_solutions[2][1] = <<>>
    /\ nloads >= 2
    /\ input_path = <<FIRST_YEAR + 1, 2>>
    /\ LineKey(out) = <<FIRST_YEAR + 1, 2, MaxParts>>

----------------------------------------------------------------------------
Occurrences(sq, v) == Cardinality({ i \in DOMAIN sq : sq[i] = v })

Recorded == [i \in 1..loop_count |-> Elapsed(clock, i)]

(* C6: benchmark_part with loop count L calls solve exactly L times, sorts *)
(* the L recorded durations ascending and reports the one at index         *)
(* floor(L/20) of the sorted sample; the index is within bounds, is 0 (the *)
(* fastest run) for L < 20 and 1 (the second fastest) for L = 20.  The     *)
(* bounds of the index are checked for every u16 loop count.               *)
C6_TopFivePercent ==
    /\ panic # "index_out_of_bounds"
    /\ invCount <= loop_count
    /\ invCount = Len(timings)
    /\ out.kind = "bench" =>
          /\ out.loops = loop_count
          /\ invCount = loop_count
          /\ \A i \in 1..(loop_count - 1) : timings[i] <= timings[i + 1]
          /\ \A i \in 1..loop_count :
                Occurrences(timings, Recorded[i]) = Occurrences(Recorded, Recorded[i])
          /\ \E k \in 0..(loop_count - 1) :
                /\ 20 * k <= loop_count
                /\ loop_count < 20 * (k + 1)
                /\ out.p5 = timings[k + 1]
          /\ loop_count < 20 =>
                /\ out.p5 = timings[1]
                /\ \A i \in 1..loop_count : out.p5 <= Recorded[i]
          /\ loop_count = 20 => out.p5 = timings[2]
    /\ (loop_count = 1 /\ timings = <<>> /\ clock = "asc") =>
          \A lc \in 1..U16Max :
             /\ P5Index(lc) < lc
             /\ lc < 20 => P5Index(lc) = 0
             /\ lc = 20 => P5Index(lc) = 1

C6_Witness ==
    /\ out.kind = "bench"
    /\ loop_count = 20
    /\ clock = "desc"
    /\ invCount = 20
    /\ timings[1] < timings[2]
    /\ out.p5 = timings[2]
    /\ out.p5 = Recorded[19]

----------------------------------------------------------------------------
(* C7: in verification mode a part's solve is invoked once, its line has   *)
(* the pass marker exactly when the computed string equals the part's      *)
(* correct_solution, else the failure marker with the computed value, and  *)
(* a mismatch leaves the run going: the loop is at the next part, and a    *)
(* run that ends normally has reported every part of the scope.            *)
C7_VerifyMarker ==
    loop_count = 0 =>
        /\ out.kind # "none" =>
              /\ out.kind = "verify"
              /\ out.result \in Outputs
              /\ out.check = "pass" <=> out.result = RegPart(lastInvoked.home).correct
              /\ out.check = "fail" <=> out.result # RegPart(lastInvoked.home).correct
              /\ invCount = 1
              /\ LineKey(out) = lastInvoked.key
        /\ (InDay /\ part_n >= 2) =>
              /\ pc = "parts"
              /\ LineKey(out) = <<year, day, part_n - 1>>
        /\ pc = "panicked" => panic # "none" /\ nout <= Cardinality(ScopeParts)
        /\ pc = "done" => nout = Cardinality(ScopeParts)

C7_Witness ==
    /\ pc = "done"
    /\ loop_count = 0
    /\ mismatch
    /\ out.check = "pass"
    /\ nout >= 4

----------------------------------------------------------------------------
(* C8, as claimed: every invocation emits exactly one diagnostic line, the *)
(* description of the selection scope.                                     *)
C8_ExactlyOneDiagnosticLine ==
    pc \in {"done", "returned"} =>
        /\ Len(stderr) = 1
        /\ stderr[1].kind = "solving"

ExpectedSummary ==
    [kind |-> "solving",
     day_text |-> CASE day_selection.tag = "All" -> <<"all days", 0>>
                    [] day_selection.tag = "Latest" -> <<"latest day", 0>>
                    [] OTHER -> <<"day", day_selection.n>>,
     year_text |-> CASE year_selection.tag = "All" -> <<"all years", 0>>
                     [] year_selection.tag = "Latest" -> <<"latest year", YearNumber(NYears)>>
                     [] OTHER -> <<"year", year_selection.n>>]

(* C8, amended: once the year selection is resolved the diagnostic stream  *)
(* begins with the one line describing the selection scope (with the       *)
(* resolved year number under Latest), and no result line comes before it; *)
(* every further diagnostic line is an out-of-range day report, and an     *)
(* out-of-range year Single yields its report and no description.          *)
C8_SummaryOnceAndFirst ==
    /\ Len(SolvingLines) <= 1
    /\ pc \in {"years", "days", "parts", "bench", "done"} =>
          /\ stderr # <<>>
          /\ stderr[1] = ExpectedSummary
          /\ Len(SolvingLines) = 1
          /\ \A i \in 2..Len(stderr) : stderr[i].kind = "no_day"
    /\ nout > 0 => (stderr # <<>> /\ stderr[1].kind = "solving")
    /\ pc = "returned" => (Len(stderr) = 1 /\ stderr[1].kind = "no_year")
    /\ pc = "start" => (stderr = <<>> /\ nout = 0)

C8_Witness ==
    /\ pc = "done"
    /\ year_selection.tag = "Latest"
    /\ NYears = 2
    /\ Len(stderr) = 1
    /\ nout > 0

----------------------------------------------------------------------------
(* C9: the fixture of a day is loaded once, before any of its parts runs,  *)
(* every solve call under the day receives lines equal to the lines as     *)
(* loaded, whatever the calls before did with theirs, and the loaded       *)
(* lines stay as they were for the whole day.                              *)
C9_FreshCopies ==
    /\ InDay =>
          /\ input_path = <<year, day>>
          /\ fixture = FileLines(year, day)
          /\ input = fixture
    /\ pc = "bench" =>
          /\ input_cloned = fixture
          /\ invCount >= 1 =>
                /\ lastInvoked.key = <<year, day, part_n>>
                /\ received = fixture
    /\ (pc = "parts" /\ part_n >= 2) =>
          /\ lastInvoked.key = <<year, day, part_n - 1>>
          /\ invCount = Reps
          /\ received = fixture
    /\ JustLoaded => nloads <= Cardinality(ScopeDays)
    /\ pc = "done" => nloads = Cardinality(ScopeDays)

C9_Witness ==
    /\ pc = "bench"
    /\ part_n = 2
    /\ loop_count >= 2
    /\ invCount = loop_count
    /\ received = fixture
    /\ Len(fixture) = 2
    /\ nloads = 2

----------------------------------------------------------------------------
(* C10: the report of an out-of-range day names the year being processed:  *)
(* the j-th day report names the j-th year of the scope for which the day  *)
(* is out of range.  Stated as the claim has it; the code names year_n,    *)
(* the first year of the scope, in every report.                           *)
C10_ReportNamesProcessedYear ==
    \A j \in DOMAIN NoDayLines :
        /\ j <= Len(OutsideYears)
        /\ NoDayLines[j].year = YearNumber(OutsideYears[j])

====
